---- MODULE Spec2Model ----
(***************************************************************************)
(* Model of the SCF energy optimizer of MRChem                             *)
(* (src/src/scf_solver/EnergyOptimizer.cpp).                               *)
(*                                                                         *)
(* EnergyOptimizer::optimize() is modelled statement group by statement    *)
(* group; the variable pc is the position of the control thread inside     *)
(* optimize().  Real numbers (precisions, errors, energies) are fixed      *)
(* point integers; ONE is the fixed-point image of 1.0.  Complex numbers   *)
(* are pairs <<re, im>> of integers and matrices are functions             *)
(* [Idx -> [Idx -> complex]].                                              *)
(*                                                                         *)
(* Collaborators whose code is not part of the sources at hand             *)
(* (SCF::adjustPrecision, SCF::checkConvergence, mpi::reduce_vector,       *)
(* orbital::*, HelmholtzVector, FockOperator) are modelled from their      *)
(* documented contract.                                                    *)
(***************************************************************************)
EXTENDS Integers, Sequences, FiniteSets, TLC

VARIABLES
    \* ---- configuration of the solver (SCF base class fields) ----
    maxIter,      \* SCF::maxIter, < 0 means "run until convergence"
    orbThrs,      \* orbital threshold, < 0 means disabled
    propThrs,     \* property threshold, < 0 means disabled
    startPrec,    \* configured starting precision (orbPrec[1])
    floorPrec,    \* configured final precision    (orbPrec[2])
    canonical,    \* SCF::canonical
    orb_size,     \* mpi::orb_size, number of orbital-owning workers
    opVals,       \* matrix-element bundles the borrowed operators can return
    normVals,     \* norms an orbital update can have in this run
    energyVals,   \* total energies calcProperty() can return in this run
    \* ---- solver fields ----
    refs,         \* which of the five references are set
    orbPrec,      \* current working precision (orbPrec[0])
    property,     \* GroundStateSolver::property, energy history
    orbError,     \* SCF::orbError, orbital error history
    \* ---- borrowed objects ----
    F_n,          \* *fMat_n
    Phi_n,        \* *orbitals_n
    Phi_np1,      \* *orbitals_np1
    fock,         \* *fOper_n lifecycle state
    H,            \* *helmholtz lifecycle state
    \* ---- locals of optimize() ----
    pc, orb_prec, err_o, err_t, err_p, nIter, converged,
    errors, dPhi_n, F_np1, result,
    \* ---- history of calls made on the collaborators ----
    fockLog, hLog, canonLog, convHist, lambdaReads,
    \* ---- objects built before the solver runs ----
    orb,          \* the Orbital most recently constructed
    nuc,          \* the NuclearPotential under construction, on every worker
    \* ---- lifecycle of the solver object ----
    calls,        \* the setup() and clear() calls made so far, in order
    msgLog        \* messages reported through MSG_ERROR

vars == << maxIter, orbThrs, propThrs, startPrec, floorPrec, canonical,
           orb_size, opVals, normVals, energyVals, refs, orbPrec, property, orbError,
           F_n, Phi_n, Phi_np1, fock, H,
           pc, orb_prec, err_o, err_t, err_p, nIter, converged,
           errors, dPhi_n, F_np1, result,
           fockLog, hLog, canonLog, convHist, lambdaReads, orb, nuc,
           calls, msgLog >>

(* everything the constructors of Orbital and NuclearPotential leave alone *)
solverVars == << maxIter, orbThrs, propThrs, startPrec, floorPrec, canonical,
                 orb_size, opVals, normVals, energyVals, refs, orbPrec, property,
                 orbError, F_n, Phi_n, Phi_np1, fock, H,
                 pc, orb_prec, err_o, err_t, err_p, nIter, converged,
                 errors, dPhi_n, F_np1, result,
                 fockLog, hLog, canonLog, convHist, lambdaReads,
                 calls, msgLog >>

cfgVars == << maxIter, orbThrs, propThrs, startPrec, floorPrec, canonical,
              orb_size, opVals, normVals, energyVals >>

----------------------------------------------------------------------------
(* Bounds of the model *)

NOrb == 2          \* number of orbitals in the orbital set
MaxWorkers == 2    \* largest number of orbital-owning workers
MaxIterCfg == 2    \* largest configured iteration cap
IterCap == 2       \* iterations explored when maxIter < 0 (no cap)
MaxArg == 3        \* largest spin and occupation handed to Orbital(spin, occ, rank)
MaxNuc == 3        \* largest number of nuclei of a NuclearPotential
MaxCalls == 3      \* longest sequence of setup() and clear() calls explored

(* Fixed-point image of the literal 1.0 used for err_t and err_p *)
ONE == 1000

Idx == 1..NOrb
Workers == 0..(orb_size - 1)

----------------------------------------------------------------------------
(* Scalar helpers *)

Max(a, b) == IF a >= b THEN a ELSE b
Min(a, b) == IF a <= b THEN a ELSE b
Abs(a) == IF a >= 0 THEN a ELSE -a

RECURSIVE maxCoeff(_)
maxCoeff(v) ==
    IF Len(v) = 1 THEN v[1] ELSE Max(v[1], maxCoeff(Tail(v)))

RECURSIVE SumSquares(_)
SumSquares(v) ==
    IF v = << >> THEN 0 ELSE v[1] * v[1] + SumSquares(Tail(v))

(* integer square root, rounded down *)
Isqrt(n) == CHOOSE r \in 0..n : r * r <= n /\ (r + 1) * (r + 1) > n

(* Eigen's DoubleVector::norm(): Euclidean norm *)
norm(v) == Isqrt(SumSquares(v))

----------------------------------------------------------------------------
(* Complex numbers <<re, im>> and NOrb x NOrb complex matrices *)

CZero == << 0, 0 >>
CAdd(a, b) == << a[1] + b[1], a[2] + b[2] >>
CSub(a, b) == << a[1] - b[1], a[2] - b[2] >>
CMul(a, b) == << a[1] * b[1] - a[2] * b[2], a[1] * b[2] + a[2] * b[1] >>
CConj(a) == << a[1], -a[2] >>
CHalf(a) == << a[1] \div 2, a[2] \div 2 >>

RECURSIVE CSum(_, _)
CSum(f, n) == IF n = 0 THEN CZero ELSE CAdd(f[n], CSum(f, n - 1))

MZero == [i \in Idx |-> [j \in Idx |-> CZero]]
MAdd(A, B) == [i \in Idx |-> [j \in Idx |-> CAdd(A[i][j], B[i][j])]]
MSub(A, B) == [i \in Idx |-> [j \in Idx |-> CSub(A[i][j], B[i][j])]]
MMul(A, B) ==
    [i \in Idx |-> [j \in Idx |->
        CSum([k \in Idx |-> CMul(A[i][k], B[k][j])], NOrb)]]
transpose(A) == [i \in Idx |-> [j \in Idx |-> A[j][i]]]
adjoint(A) == [i \in Idx |-> [j \in Idx |-> CConj(A[j][i])]]
MHalf(A) == [i \in Idx |-> [j \in Idx |-> CHalf(A[i][j])]]
(* F.real().diagonal() *)
realDiagonal(A) == [i \in Idx |-> A[i][i][1]]
(* lambda.cast<ComplexDouble>().asDiagonal() *)
asDiagonal(v) ==
    [i \in Idx |-> [j \in Idx |-> IF i = j THEN << v[i], 0 >> ELSE CZero]]

IsHermitian(A) == A = adjoint(A)
IsSymmetric(A) == A = transpose(A)
IsReal(A) == \A i \in Idx : \A j \in Idx : A[i][j][2] = 0

MId == [i \in Idx |-> [j \in Idx |-> IF i = j THEN << 1, 0 >> ELSE CZero]]
(* a unitary matrix with complex entries: the reversal permutation times i *)
MRev ==
    [i \in Idx |-> [j \in Idx |-> IF j = NOrb + 1 - i THEN << 0, 1 >> ELSE CZero]]

----------------------------------------------------------------------------
(* Values the numerical collaborators can produce *)

(* total energies calcProperty() returns *)
EnergyVals == { 0, -10 }
(* norms of the orbital updates dPhi_n *)
NormVals == { 20, 40 }
(* rotation matrices returned by calc_lowdin_matrix / localize *)
RotVals == { MId, MRev }

(* One bundle holds the matrices the operators return to one call of
   calcFockMatrixUpdate.  All entries are even so that 0.5 * sym is exact. *)
ZeroOps ==
    [ dS_1 |-> MZero, dS_2 |-> MZero, dV_n |-> MZero,
      F_n |-> MZero, F_1 |-> MZero, F_2 |-> MZero ]
RealOps ==
    [ dS_1 |-> [i \in Idx |-> [j \in Idx |-> << 2 * (i - j), 0 >>]],
      dS_2 |-> [i \in Idx |-> [j \in Idx |-> << 2 * j, 0 >>]],
      dV_n |-> [i \in Idx |-> [j \in Idx |-> << 2 * i, 0 >>]],
      F_n  |-> [i \in Idx |-> [j \in Idx |-> << 2 * i * j, 0 >>]],
      F_1  |-> [i \in Idx |-> [j \in Idx |-> << -2, 0 >>]],
      F_2  |-> [i \in Idx |-> [j \in Idx |-> << 4 * i, 0 >>]] ]
ComplexOps ==
    [ dS_1 |-> [i \in Idx |-> [j \in Idx |-> << 0, 2 * (i - j) >>]],
      dS_2 |-> MZero,
      dV_n |-> [i \in Idx |-> [j \in Idx |-> << 2 * i, 2 * j >>]],
      F_n  |-> MZero,
      F_1  |-> [i \in Idx |-> [j \in Idx |-> << -2, 0 >>]],
      F_2  |-> [i \in Idx |-> [j \in Idx |-> << 0, 2 * i >>]] ]
OperatorOutputs == { ZeroOps, RealOps, ComplexOps }

(* Hermitian Fock matrices at entry *)
HermitianF0 ==
    { MId,
      [i \in Idx |-> [j \in Idx |->
          IF i = j THEN << -i, 0 >> ELSE << 1, 0 >>]],
      [i \in Idx |-> [j \in Idx |->
          IF i = j THEN << -i, 0 >> ELSE IF i < j THEN << 0, 1 >> ELSE << 0, -1 >>]] }

----------------------------------------------------------------------------
(* Collaborators of optimize() *)

(* rank that owns orbital i (round-robin distribution of the orbital set) *)
Owner(i) == (i - 1) % orb_size

(* SCF::getOrbitalPrecision(): the current working precision *)
getOrbitalPrecision == orbPrec

(* SCF::resetPrecision(): the working precision returns to its start value *)
resetPrecision == startPrec

(* SCF::adjustPrecision(error): max(floor, min(start, error)) *)
adjustPrecision(error) == Max(floorPrec, Min(startPrec, error))

(* SCF::checkConvergence(err_o, err_p): a negative threshold is disabled *)
checkConvergence(eo, ep) ==
    /\ (orbThrs < 0 \/ eo < orbThrs)
    /\ (propThrs < 0 \/ ep < propThrs)

(* GroundStateSolver::calcPropertyError(): |E_k - E_{k-1}|, E_0 = 0 *)
calcPropertyError(prop) ==
    LET n == Len(prop)
    IN  IF n = 0 THEN 0
        ELSE IF n = 1 THEN Abs(prop[1])
        ELSE Abs(prop[n] - prop[n - 1])

(* orbital::get_errors(Phi): the error stored on every orbital *)
get_errors(Phi) == [i \in 1..Len(Phi) |-> Phi[i].err]

(* orbital::set_errors(Phi, errors) *)
set_errors(Phi, errs) == [i \in 1..Len(Phi) |-> [Phi[i] EXCEPT !.err = errs[i]]]

(* orbital::get_norms(dPhi) on worker w: the norm of every orbital w owns,
   zero for the others *)
get_norms(dPhi, w) ==
    [i \in 1..Len(dPhi) |-> IF Owner(i) = w THEN dPhi[i].norm ELSE 0]

RECURSIVE SumOver(_, _, _)
SumOver(part, i, w) ==
    IF w < 0 THEN 0 ELSE part[w][i] + SumOver(part, i, w - 1)

(* mpi::reduce_vector(vec, comm_orb): element-wise sum over all workers,
   the result is stored on every worker *)
reduce_vector(part) ==
    [w \in Workers |->
        [i \in 1..Len(part[0]) |-> SumOver(part, i, orb_size - 1)]]

(* orbital::diagonalize(prec, Phi, F): F becomes real and diagonal *)
diagonalize(F) == asDiagonal(realDiagonal(F))

free_clear(Phi) == << >>

(* orbital::free(Phi): the representation of every orbital is released, the
   set keeps its entries *)
free(Phi) == [i \in 1..Len(Phi) |-> [gen |-> Phi[i].gen, form |-> "freed"]]

(* a set of NOrb orbitals produced in iteration gen *)
NewOrbitals(gen, form) ==
    [i \in Idx |-> [gen |-> gen, err |-> ONE, form |-> form]]

(* orbital::orthonormalize(prec, Phi): the set is orthonormalized in place *)
orthonormalize(Phi) ==
    [i \in 1..Len(Phi) |-> [Phi[i] EXCEPT !.form = "orthonormal"]]

(* orbital::add(1.0, Phi, 1.0, dPhi): a new set, orbital i the sum of
   Phi[i] and dPhi[i] *)
add(Phi, dPhi) ==
    [i \in 1..Len(Phi) |-> [gen |-> dPhi[i].gen, err |-> ONE, form |-> "sum"]]

----------------------------------------------------------------------------
(* Expressions of EnergyOptimizer::optimize() *)

LoopCondition_offByOne(n, m) == n <= m \/ m < 0

(* while(nIter++ < this->maxIter or this->maxIter < 0) *)
LoopCondition(n, m) == n < m \/ m < 0

WorkingPrecision_raw(e) == e

(* orb_prec = adjustPrecision(err_o) *)
WorkingPrecision(e) == adjustPrecision(e)

ReducedErrors_skip(part) == part

(* mpi::reduce_vector(errors, mpi::comm_orb) *)
ReducedErrors(part) == reduce_vector(part)

OrbitalError_norm(errs) == norm(errs)

(* err_o = errors.maxCoeff() *)
OrbitalError(errs) == maxCoeff(errs)

(* err_t = errors.norm() *)
TotalError(errs) == norm(errs)

(* this->orbError.push_back(err_t) *)
PushedOrbError(eo, et) == et

BreakAfterCycle_never(conv) == FALSE

(* if (converged) break *)
BreakAfterCycle(conv) == conv

(* F_n = U*F*U.adjoint() *)
Rotated(U, F) == MMul(MMul(U, F), adjoint(U))

FinalPrecision_same(p) == p

(* orb_prec/10 *)
FinalPrecision(p) == p \div 10

CanonicalMode_flipped(c) == ~c

(* if (this->canonical) diagonalize, else localize: lines 60 and 125 *)
CanonicalMode(c) == c

(* if (mpi::orb_size > 1) H.clear() *)
ClearsHelmholtz(n) == n > 1

OperatorInitialized_always(r) == TRUE

(* calcFockMatrixUpdate, line 137: this->fOper_np1 == 0 is false *)
OperatorInitialized(r) == r.fOper_np1

ReturnValue_true(conv) == TRUE

(* return converged *)
ReturnValue(conv) == conv

(* ComplexMatrix sym = dF_n + dF_n.transpose(); dF_n = 0.5 * sym *)
Symmetrize(X) == MHalf(MAdd(X, transpose(X)))

(* F_np1 = F_1 + F_2 + F_2.transpose() *)
FockNp1(o) == MAdd(MAdd(o.F_1, o.F_2), transpose(o.F_2))

RawUpdate_noLambda(o, Fold, lambda) ==
    MAdd(MAdd(o.dV_n, MMul(o.dS_1, Fold)), MSub(FockNp1(o), o.F_n))

(* dF_n = dV_n + dF_1 + dF_2 + dF_3 before symmetrization *)
RawUpdate(o, Fold, lambda) ==
    LET L    == asDiagonal(lambda)
        dF_1 == MMul(o.dS_1, Fold)
        dF_2 == MMul(o.dS_2, L)
        dF_3 == MSub(FockNp1(o), o.F_n)
    IN  MAdd(MAdd(MAdd(o.dV_n, dF_1), dF_2), dF_3)

(* EnergyOptimizer::calcFockMatrixUpdate: the returned matrix *)
RecomputedPhi_np1_keep(PhiN, dPhiN, ortho) == ortho

(* calcFockMatrixUpdate, lines 267-268: the orthonormalized set is released
   and Phi_np1 is recomputed as Phi_n + dPhi_n *)
RecomputedPhi_np1(PhiN, dPhiN, ortho) == add(PhiN, dPhiN)

(* calcFockMatrixUpdate, lines 140-268, its effect on the orbital sets:
   Phi_n and dPhi_n are only read (overlaps and operator matrices), Phi_np1
   is orthonormalized in place at line 235 for the n+1 operator and
   recomputed at lines 267-268 *)
OrbitalsAfterUpdate(PhiN, dPhiN, PhiNp1) ==
    LET ortho == orthonormalize(PhiNp1)
    IN  [ Phi_n |-> PhiN, dPhi_n |-> dPhiN,
          Phi_np1 |-> RecomputedPhi_np1(PhiN, dPhiN, ortho) ]

calcFockMatrixUpdate(o, Fold, lambda) == Symmetrize(RawUpdate(o, Fold, lambda))

----------------------------------------------------------------------------
(* Orbital: the meta data {rank, spin, occ} set by its constructors *)

(* SPIN::Paired, SPIN::Alpha, SPIN::Beta *)
Paired == 0
Alpha == 1
Beta == 2

SpinArgs == -1..MaxArg
OccArgs == -1..MaxArg
RankArgs == -1..(orb_size - 1)

NoOrbital == [status |-> "none", rank |-> -1, spin |-> 0, occ |-> 0, by |-> "none"]

(* lines 56-60: the occupation stored for a negative occ argument *)
DefaultOcc(spin, occ) ==
    LET o1 == IF spin = Paired THEN 2 ELSE occ
        o2 == IF spin = Alpha THEN 1 ELSE o1
    IN  IF spin = Beta THEN 1 ELSE o2

(* Orbital::Orbital(int spin, double occ, int rank) *)
OrbitalData(spin, occ, rank, by) ==
    IF spin < 0
    THEN [status |-> "aborted", rank |-> rank, spin |-> spin, occ |-> occ, by |-> by]
    ELSE [status |-> "ok", rank |-> rank, spin |-> spin,
          occ |-> IF occ < 0 THEN DefaultOcc(spin, occ) ELSE occ, by |-> by]

----------------------------------------------------------------------------
(* NuclearPotential: what every worker holds while the potential is built *)

(* precisions handed to the constructor *)
PrecArgs == { -10, 0, 10 }
SmoothArgs == { -10, 0, 5 }

Nuclei(n) == 0..(n - 1)

(* a function registered or projected from a set of nuclei: how often the
   contribution of every nucleus is contained in it *)
NoFunc == [k \in Nuclei(MaxNuc) |-> 0]
FuncOf(S) == [k \in Nuclei(MaxNuc) |-> IF k \in S THEN 1 ELSE 0]

NoPotential ==
    [ status |-> "none", proj_prec |-> 0, smooth_arg |-> 0, smooth_prec |-> 0,
      share |-> FALSE, share_size |-> 1, exact |-> FALSE, n |-> 0,
      func |-> [w \in Workers |-> NoFunc],
      loc_func |-> [w \in Workers |-> NoFunc],
      V_loc |-> [w \in Workers |-> NoFunc],
      V_tot |-> [w \in Workers |-> NoFunc],
      collectives |-> 0 ]

(* line 254: if (proj_prec < 0.0) MSG_ABORT *)
NegativePrecision(proj, smooth) == proj < 0

(* line 255: if (smooth_prec < 0.0) smooth_prec = proj_prec *)
SmoothingPrecision(proj, smooth) == IF smooth < 0 THEN proj ELSE smooth

proj_rank_noMod(k, exact) == IF exact THEN 0 ELSE k

(* line 272: proj_rank = (mpi::numerically_exact) ? 0 : k % mpi::orb_size *)
proj_rank(k, exact) == IF exact THEN 0 ELSE k % orb_size

(* the workers are grouped in nodes of size workers that share memory: the
   share master of worker w (rank 0 of its mpi::comm_share) and the first
   worker with the same rank inside its node (rank 0 of its
   mpi::comm_sh_group) *)
ShareSizes == { d \in 1..orb_size : orb_size % d = 0 }
share_master(w, size) == w - (w % size)
sh_group_root(w, size) == w % size

(* mpi::reduce_function(prec, V_loc, comm_orb): the grand master receives the
   sum of all local functions *)
RECURSIVE SumFuncs(_, _, _)
SumFuncs(V, k, w) == IF w < 0 THEN 0 ELSE V[w][k] + SumFuncs(V, k, w - 1)
reduce_function(V) ==
    [w \in Workers |->
        IF w = 0 THEN [k \in Nuclei(MaxNuc) |-> SumFuncs(V, k, orb_size - 1)]
        ELSE V[w]]

(* mpi::broadcast_function(V, comm) / mpi::share_function(V, 0, tag, comm):
   every worker receives the function held by rank 0 of its communicator *)
broadcast_function(V, root) == [w \in Workers |-> V[root[w]]]

(* allreducePotential, lines 312-316: the local contributions are added up
   into the grand master (crop keeps the function within the precision) *)
ReducedPotential(V_loc) == reduce_function(V_loc)

(* allreducePotential, lines 319-329, shared memory: broadcast over
   comm_sh_group, the share masters copy V_loc into V_tot, share_function
   hands V_tot of the share master to the workers of its node *)
SharedPath(V_loc, V_tot, size) ==
    LET grp    == [w \in Workers |-> sh_group_root(w, size)]
        mst    == [w \in Workers |-> share_master(w, size)]
        bc     == broadcast_function(V_loc, grp)
        copied == [w \in Workers |-> IF mst[w] = w THEN bc[w] ELSE V_tot[w]]
    IN  [ V_loc |-> bc, V_tot |-> broadcast_function(copied, mst) ]

(* allreducePotential, lines 330-336, no shared memory: broadcast over
   comm_orb, every worker copies V_loc into V_tot *)
DirectPath(V_loc, V_tot) ==
    LET grand == [w \in Workers |-> 0]
        bc    == broadcast_function(V_loc, grand)
    IN  [ V_loc |-> bc, V_tot |-> bc ]

----------------------------------------------------------------------------
(* Initial states: the solver has been constructed, the borrowed objects
   exist, nothing is set up *)

NoRefs ==
    [ fMat_n |-> FALSE, fOper_n |-> FALSE, fOper_np1 |-> FALSE,
      orbitals_n |-> FALSE, orbitals_np1 |-> FALSE ]
AllRefs ==
    [ fMat_n |-> TRUE, fOper_n |-> TRUE, fOper_np1 |-> TRUE,
      orbitals_n |-> TRUE, orbitals_np1 |-> TRUE ]

InitState(F0, e0) ==
    /\ refs = NoRefs
    /\ orbPrec = startPrec
    /\ property = << >>
    /\ orbError = << >>
    /\ F_n = F0
    /\ Phi_n = [i \in Idx |-> [gen |-> 0, err |-> e0, form |-> "initial"]]
    /\ Phi_np1 = << >>
    /\ fock = [active |-> FALSE, prec |-> 0]
    /\ H = [active |-> FALSE, prec |-> 0, lambda |-> [i \in Idx |-> 0]]
    /\ pc = "constructed"
    /\ orb_prec = 0
    /\ err_o = [w \in Workers |-> 0]
    /\ err_t = [w \in Workers |-> 0]
    /\ err_p = 0
    /\ nIter = 0
    /\ converged = [w \in Workers |-> FALSE]
    /\ errors = [w \in Workers |-> << >>]
    /\ dPhi_n = << >>
    /\ F_np1 = MZero
    /\ result = FALSE
    /\ fockLog = << >>
    /\ hLog = << >>
    /\ canonLog = << >>
    /\ convHist = << >>
    /\ lambdaReads = << >>
    /\ orb = NoOrbital
    /\ nuc = NoPotential
    /\ calls = << >>
    /\ msgLog = << >>

(* floor precision, orbital basis and error of the initial orbitals: every
   pair of values of two of the three occurs *)
RunSettings ==
    { [floor |-> 10, canonical |-> TRUE,  err |-> 20],
      [floor |-> 10, canonical |-> FALSE, err |-> ONE],
      [floor |-> 30, canonical |-> TRUE,  err |-> ONE],
      [floor |-> 30, canonical |-> FALSE, err |-> 20] }

Init ==
    /\ maxIter \in -1..MaxIterCfg
    /\ orbThrs \in { -10, 25 }
    /\ propThrs \in { -10, 5 }
    /\ startPrec = 30
    /\ orb_size \in { 1, MaxWorkers }
    /\ opVals = { ZeroOps }
    /\ normVals = NormVals
    /\ energyVals = EnergyVals
    /\ \E c \in RunSettings :
          /\ floorPrec = c.floor
          /\ canonical = c.canonical
          /\ InitState(MId, c.err)

InitMat ==
    /\ maxIter = MaxIterCfg
    /\ orbThrs \in { -10, 25 }
    /\ propThrs = -10
    /\ startPrec = 30
    /\ floorPrec = 10
    /\ canonical \in BOOLEAN
    /\ orb_size \in { 1, MaxWorkers }
    /\ opVals = OperatorOutputs
    /\ normVals = { 40 }
    /\ energyVals = { 0 }
    /\ \E F0 \in HermitianF0 : InitState(F0, ONE)

----------------------------------------------------------------------------
(* the solver exists and optimize() is not running *)
Idle == { "constructed", "ready", "returned", "cleared" }

(* EnergyOptimizer::setup, called at one of the positions in from *)
setupFrom(from) ==
    /\ pc \in from
    /\ Len(calls) < MaxCalls
    /\ refs' = AllRefs
    /\ calls' = Append(calls, "setup")
    /\ pc' = "ready"
    /\ UNCHANGED << cfgVars, orb, nuc, msgLog, orbPrec, property, orbError, F_n, Phi_n, Phi_np1,
                    fock, H, orb_prec, err_o, err_t, err_p, nIter, converged,
                    errors, dPhi_n, F_np1, result, fockLog, hLog, canonLog,
                    convHist, lambdaReads >>

(* setup() on the freshly constructed solver *)
setup == setupFrom({ "constructed" })

(* setup() at any time between two runs of optimize() *)
setup_any == setupFrom(Idle)

(* optimize(), lines 49-58: bind the references, read the precision and the
   errors of the initial orbitals *)
OptimizeEntry ==
    /\ pc = "ready"
    /\ orb_prec' = getOrbitalPrecision
    /\ err_o' = [w \in Workers |-> maxCoeff(get_errors(Phi_n))]
    /\ err_t' = [w \in Workers |-> ONE]
    /\ err_p' = ONE
    /\ pc' = "canonicalize"
    /\ UNCHANGED << cfgVars, orb, nuc, calls, msgLog, refs, orbPrec, property, orbError, F_n, Phi_n,
                    Phi_np1, fock, H, nIter, converged, errors, dPhi_n, F_np1,
                    result, fockLog, hLog, canonLog, convHist, lambdaReads >>

(* optimize(), lines 60-68: initial diagonalization or localization *)
InitialCanonicalize ==
    /\ pc = "canonicalize"
    /\ IF CanonicalMode(canonical)
       THEN /\ F_n' = diagonalize(F_n)
            /\ canonLog' = Append(canonLog, [op |-> "diagonalize", prec |-> orb_prec])
       ELSE /\ \E U \in RotVals : F_n' = Rotated(U, F_n)
            /\ canonLog' = Append(canonLog, [op |-> "localize", prec |-> orb_prec])
    /\ Phi_n' = [i \in 1..Len(Phi_n) |-> [Phi_n[i] EXCEPT !.form = "canonical"]]
    /\ nIter' = 0
    /\ converged' = [w \in Workers |-> FALSE]
    /\ pc' = "while"
    /\ UNCHANGED << cfgVars, orb, nuc, calls, msgLog, refs, orbPrec, property, orbError, Phi_np1, fock, H,
                    orb_prec, err_o, err_t, err_p, errors, dPhi_n, F_np1,
                    result, fockLog, hLog, convHist, lambdaReads >>

(* optimize(), line 69: the loop test with its post-increment *)
LoopTest ==
    /\ pc = "while"
    /\ maxIter < 0 => nIter < IterCap
    /\ nIter' = nIter + 1
    /\ pc' = IF LoopCondition(nIter, maxIter) THEN "cycle" ELSE "final"
    /\ UNCHANGED << cfgVars, orb, nuc, calls, msgLog, refs, orbPrec, property, orbError, F_n, Phi_n,
                    Phi_np1, fock, H, orb_prec, err_o, err_t, err_p, converged,
                    errors, dPhi_n, F_np1, result, fockLog, hLog, canonLog,
                    convHist, lambdaReads >>

(* optimize(), lines 71-73: derive the working precision of the cycle *)
CycleInit ==
    /\ pc = "cycle"
    /\ orb_prec' = WorkingPrecision(err_o[0])
    /\ orbPrec' = WorkingPrecision(err_o[0])
    /\ pc' = "energy"
    /\ UNCHANGED << cfgVars, orb, nuc, calls, msgLog, refs, property, orbError, F_n, Phi_n, Phi_np1,
                    fock, H, err_o, err_t, err_p, nIter, converged, errors,
                    dPhi_n, F_np1, result, fockLog, hLog, canonLog, convHist,
                    lambdaReads >>

RecordedProperty_overwrite(prop, E) == << E >>

(* this->property.push_back(E), line 78 *)
RecordedProperty(prop, E) == Append(prop, E)

(* optimize(), lines 76-78: fock.setup, calcProperty, property.push_back *)
ComputeEnergy ==
    /\ pc = "energy"
    /\ fock' = [active |-> TRUE, prec |-> orb_prec]
    /\ fockLog' = Append(fockLog, [op |-> "setup", prec |-> orb_prec, iter |-> nIter,
                                   err |-> err_o[0]])
    /\ \E E \in energyVals : property' = RecordedProperty(property, E)
    /\ pc' = "helmholtz"
    /\ UNCHANGED << cfgVars, orb, nuc, calls, msgLog, refs, orbPrec, orbError, F_n, Phi_n, Phi_np1, H,
                    orb_prec, err_o, err_t, err_p, nIter, converged, errors,
                    dPhi_n, F_np1, result, hLog, canonLog, convHist,
                    lambdaReads >>

(* optimize(), lines 81-89: H.setup, getLambda, apply H, free Psi_n and,
   for more than one worker, H.clear *)
ApplyHelmholtz ==
    /\ pc = "helmholtz"
    /\ LET lam == realDiagonal(F_n)
           su  == [op |-> "setup", prec |-> orb_prec, iter |-> nIter,
                   wasActive |-> H.active]
           cl  == [op |-> "clear", prec |-> orb_prec, iter |-> nIter,
                   wasActive |-> TRUE]
       IN  /\ lambdaReads' = Append(lambdaReads,
                                    [at |-> "optimize", iter |-> nIter, active |-> TRUE])
           /\ IF ClearsHelmholtz(orb_size)
              THEN /\ H' = [active |-> FALSE, prec |-> 0, lambda |-> [i \in Idx |-> 0]]
                   /\ hLog' = hLog \o << su, cl >>
              ELSE /\ H' = [active |-> TRUE, prec |-> orb_prec, lambda |-> lam]
                   /\ hLog' = Append(hLog, su)
    /\ Phi_np1' = NewOrbitals(nIter, "helmholtz")
    /\ pc' = "errors"
    /\ UNCHANGED << cfgVars, orb, nuc, calls, msgLog, refs, orbPrec, property, orbError, F_n, Phi_n, fock,
                    orb_prec, err_o, err_t, err_p, nIter, converged, errors,
                    dPhi_n, F_np1, result, fockLog, canonLog, convHist >>

(* optimize(), lines 92-103: orbital updates, their norms, the reduction over
   the workers, the error measures and the convergence predicate *)
ComputeErrors ==
    /\ pc = "errors"
    /\ \E nv \in [Idx -> normVals] :
          LET dPhi == [i \in Idx |-> [norm |-> nv[i], gen |-> nIter, form |-> "delta"]]
              errs == ReducedErrors([w \in Workers |-> get_norms(dPhi, w)])
              eo   == [w \in Workers |-> OrbitalError(errs[w])]
              et   == [w \in Workers |-> TotalError(errs[w])]
              ep   == calcPropertyError(property)
              conv == [w \in Workers |-> checkConvergence(eo[w], ep)]
          IN  /\ dPhi_n' = dPhi
              /\ errors' = errs
              /\ Phi_n' = set_errors(Phi_n, errs[0])
              /\ err_o' = eo
              /\ err_t' = et
              /\ err_p' = ep
              /\ orbError' = Append(orbError, PushedOrbError(eo[0], et[0]))
              /\ converged' = conv
              /\ convHist' = Append(convHist, conv[0])
    /\ pc' = "fockupdate"
    /\ UNCHANGED << cfgVars, orb, nuc, calls, msgLog, refs, orbPrec, property, F_n, Phi_np1, fock, H,
                    orb_prec, nIter, F_np1, result, fockLog, hLog, canonLog,
                    lambdaReads >>

(* optimize(), lines 106-109: F_np1 = F_n + calcFockMatrixUpdate(dPhi_n),
   free Phi_n and dPhi_n, fock.clear (clearFock tells whether line 109 is
   executed) *)
UpdateFockBody(clearFock) ==
    /\ pc = "fockupdate"
    /\ OperatorInitialized(refs)
    /\ \E o \in opVals :
          F_np1' = MAdd(F_n, calcFockMatrixUpdate(o, F_n, H.lambda))
    /\ lambdaReads' = Append(lambdaReads,
                             [at |-> "calcFockMatrixUpdate", iter |-> nIter,
                              active |-> H.active])
    /\ LET r == OrbitalsAfterUpdate(Phi_n, dPhi_n, Phi_np1)
       IN  /\ Phi_np1' = r.Phi_np1
           /\ Phi_n' = free(r.Phi_n)
           /\ dPhi_n' = free(r.dPhi_n)
    /\ IF clearFock
       THEN /\ fock' = [active |-> FALSE, prec |-> 0]
            /\ fockLog' = Append(fockLog,
                                 [op |-> "clear", prec |-> orb_prec, iter |-> nIter])
       ELSE UNCHANGED << fock, fockLog >>
    /\ pc' = "rotate"
    /\ UNCHANGED << cfgVars, orb, nuc, calls, msgLog, refs, orbPrec, property, orbError, F_n, H, orb_prec,
                    err_o, err_t, err_p, nIter, converged, errors, result, hLog,
                    canonLog, convHist >>

UpdateFock_noClear == UpdateFockBody(FALSE)

UpdateFock == UpdateFockBody(TRUE)

(* calcFockMatrixUpdate, line 137, called on a solver whose n+1 operator
   reference is unset (never set up, or cleared since the last setup):
   MSG_FATAL("Operator not initialized") ends the run *)
calcFockMatrixUpdateUnset ==
    /\ pc \in { "constructed", "cleared", "fockupdate" }
    /\ ~OperatorInitialized(refs)
    /\ pc' = "fatal"
    /\ UNCHANGED << cfgVars, orb, nuc, calls, msgLog, refs, orbPrec, property, orbError, F_n, Phi_n,
                    Phi_np1, fock, H, orb_prec, err_o, err_t, err_p, nIter,
                    converged, errors, dPhi_n, F_np1, result, fockLog, hLog,
                    canonLog, convHist, lambdaReads >>

(* optimize(), lines 112-120: Loewdin rotation of orbitals and Fock matrix *)
RotateOrbitals ==
    /\ pc = "rotate"
    /\ \E U \in RotVals : F_n' = Rotated(U, F_np1)
    /\ Phi_n' = NewOrbitals(nIter, "rotated")
    /\ Phi_np1' = free(Phi_np1)
    /\ pc' = "break"
    /\ UNCHANGED << cfgVars, orb, nuc, calls, msgLog, refs, orbPrec, property, orbError, fock, H, orb_prec,
                    err_o, err_t, err_p, nIter, converged, errors, dPhi_n, F_np1,
                    result, fockLog, hLog, canonLog, convHist, lambdaReads >>

(* optimize(), lines 122-123: leave the loop when converged; the locals of
   the loop body go out of scope *)
BreakTest ==
    /\ pc = "break"
    /\ pc' = IF BreakAfterCycle(converged[0]) THEN "final" ELSE "while"
    /\ errors' = [w \in Workers |-> << >>]
    /\ F_np1' = MZero
    /\ dPhi_n' = << >>
    /\ UNCHANGED << cfgVars, orb, nuc, calls, msgLog, refs, orbPrec, property, orbError, F_n, Phi_n,
                    Phi_np1, fock, H, orb_prec, err_o, err_t, err_p, nIter,
                    converged, result, fockLog, hLog, canonLog,
                    convHist, lambdaReads >>

(* optimize(), lines 125-130: final diagonalization or localization *)
FinalCanonicalize ==
    /\ pc = "final"
    /\ IF CanonicalMode(canonical)
       THEN /\ F_n' = diagonalize(F_n)
            /\ canonLog' = Append(canonLog, [op |-> "diagonalize",
                                             prec |-> FinalPrecision(orb_prec)])
       ELSE /\ \E U \in RotVals : F_n' = Rotated(U, F_n)
            /\ canonLog' = Append(canonLog, [op |-> "localize",
                                             prec |-> FinalPrecision(orb_prec)])
    /\ Phi_n' = [i \in 1..Len(Phi_n) |-> [Phi_n[i] EXCEPT !.form = "canonical"]]
    /\ pc' = "return"
    /\ UNCHANGED << cfgVars, orb, nuc, calls, msgLog, refs, orbPrec, property, orbError, Phi_np1, fock, H,
                    orb_prec, err_o, err_t, err_p, nIter, converged, errors,
                    dPhi_n, F_np1, result, fockLog, hLog, convHist,
                    lambdaReads >>

(* optimize(), lines 132-133: return converged *)
Return ==
    /\ pc = "return"
    /\ result' = ReturnValue(converged[0])
    /\ pc' = "returned"
    /\ UNCHANGED << cfgVars, orb, nuc, calls, msgLog, refs, orbPrec, property, orbError, F_n, Phi_n,
                    Phi_np1, fock, H, orb_prec, err_o, err_t, err_p, nIter,
                    converged, errors, dPhi_n, F_np1, fockLog, hLog, canonLog,
                    convHist, lambdaReads >>

(* EnergyOptimizer::clear, called at one of the positions in from *)
clearFrom(from) ==
    /\ pc \in from
    /\ Len(calls) < MaxCalls
    /\ refs' = NoRefs
    /\ orbPrec' = resetPrecision
    /\ calls' = Append(calls, "clear")
    /\ pc' = "cleared"
    /\ UNCHANGED << cfgVars, orb, nuc, msgLog, property, orbError, F_n, Phi_n,
                    Phi_np1, fock, H, orb_prec, err_o, err_t, err_p, nIter,
                    converged, errors, dPhi_n, F_np1, result, fockLog, hLog,
                    canonLog, convHist, lambdaReads >>

(* clear() after optimize() has returned *)
clear == clearFrom({ "returned" })

(* clear() at any time between two runs of optimize() *)
clear_any == clearFrom(Idle)

NotProperlyCleared_never(r) == FALSE

(* ~EnergyOptimizer, line 27: if (this->fOper_np1 != 0) *)
NotProperlyCleared(r) == r.fOper_np1

(* EnergyOptimizer::~EnergyOptimizer, lines 26-28 *)
destructor ==
    /\ pc \in Idle
    /\ msgLog' = IF NotProperlyCleared(refs)
                 THEN Append(msgLog, "Solver not properly cleared")
                 ELSE msgLog
    /\ pc' = "destroyed"
    /\ UNCHANGED << cfgVars, orb, nuc, calls, refs, orbPrec, property, orbError,
                    F_n, Phi_n, Phi_np1, fock, H, orb_prec, err_o, err_t, err_p,
                    nIter, converged, errors, dPhi_n, F_np1, result, fockLog,
                    hLog, canonLog, convHist, lambdaReads >>

Next ==
    \/ setup
    \/ OptimizeEntry
    \/ InitialCanonicalize
    \/ LoopTest
    \/ CycleInit
    \/ ComputeEnergy
    \/ ApplyHelmholtz
    \/ ComputeErrors
    \/ UpdateFock
    \/ calcFockMatrixUpdateUnset
    \/ RotateOrbitals
    \/ BreakTest
    \/ FinalCanonicalize
    \/ Return
    \/ clear

(* control and lifecycle of optimize(), operators returning zero updates *)
Spec == Init /\ [][Next]_vars

(* the same program with non-trivial matrix elements *)
SpecMat == InitMat /\ [][Next]_vars

(* a solver that is set up, run, cleared and destroyed in any order: one
   iteration per run, started with orbitals whose error lowers the working
   precision below its start value *)
InitLife ==
    /\ maxIter = 1
    /\ orbThrs = -10
    /\ propThrs = -10
    /\ startPrec = 30
    /\ floorPrec = 10
    /\ canonical = TRUE
    /\ orb_size \in { 1, MaxWorkers }
    /\ opVals = { ZeroOps }
    /\ normVals = { 20 }
    /\ energyVals = { 0 }
    /\ InitState(MId, 20)

NextLife ==
    \/ setup_any
    \/ clear_any
    \/ destructor
    \/ OptimizeEntry
    \/ InitialCanonicalize
    \/ LoopTest
    \/ CycleInit
    \/ ComputeEnergy
    \/ ApplyHelmholtz
    \/ ComputeErrors
    \/ UpdateFock
    \/ calcFockMatrixUpdateUnset
    \/ RotateOrbitals
    \/ BreakTest
    \/ FinalCanonicalize
    \/ Return

SpecLife == InitLife /\ [][NextLife]_vars

----------------------------------------------------------------------------
(* Constructors of Orbital *)

(* Orbital::Orbital(), lines 40-42 *)
Orbital_default ==
    /\ orb.status # "aborted"
    /\ nuc.status # "aborted"
    /\ orb' = [status |-> "ok", rank |-> -1, spin |-> 0, occ |-> 0, by |-> "default"]
    /\ UNCHANGED << solverVars, nuc >>

(* Orbital::Orbital(int spin, double occ, int rank), lines 52-61 *)
Orbital_ctor ==
    /\ orb.status # "aborted"
    /\ nuc.status # "aborted"
    /\ \E spin \in SpinArgs : \E occ \in OccArgs : \E rank \in RankArgs :
          orb' = OrbitalData(spin, occ, rank, "ctor")
    /\ UNCHANGED << solverVars, nuc >>

(* Orbital::Orbital(const Orbital &orb), lines 70-72 *)
Orbital_copy ==
    /\ orb.status = "ok"
    /\ nuc.status # "aborted"
    /\ orb' = [orb EXCEPT !.by = "copy"]
    /\ UNCHANGED << solverVars, nuc >>

(* Orbital::paramCopy(), lines 98-100 *)
paramCopy ==
    /\ orb.status = "ok"
    /\ nuc.status # "aborted"
    /\ orb' = OrbitalData(orb.spin, orb.occ, orb.rank, "paramCopy")
    /\ UNCHANGED << solverVars, nuc >>

----------------------------------------------------------------------------
(* Construction of NuclearPotential *)

(* NuclearPotential::NuclearPotential, lines 252-283: the precision checks,
   the registration of the nuclei and the projection of the local function,
   executed by every worker *)
NuclearPotential ==
    /\ nuc.status = "none"
    /\ orb.status # "aborted"
    /\ \E proj \in PrecArgs : \E smooth \in SmoothArgs : \E n \in 1..MaxNuc :
       \E share \in BOOLEAN : \E exact \in BOOLEAN :
       \E size \in IF share THEN ShareSizes ELSE { 1 } :
          IF NegativePrecision(proj, smooth)
          THEN nuc' = [nuc EXCEPT !.status = "aborted", !.proj_prec = proj,
                                  !.smooth_arg = smooth, !.share = share,
                                  !.share_size = size,
                                  !.exact = exact, !.n = n]
          ELSE LET mine(w) == { k \in Nuclei(n) : proj_rank(k, exact) = w }
               IN  nuc' = [ status |-> "projected", proj_prec |-> proj,
                            smooth_arg |-> smooth,
                            smooth_prec |-> SmoothingPrecision(proj, smooth),
                            share |-> share, share_size |-> size,
                            exact |-> exact, n |-> n,
                            func |-> [w \in Workers |-> FuncOf(Nuclei(n))],
                            loc_func |-> [w \in Workers |-> FuncOf(mine(w))],
                            V_loc |-> [w \in Workers |-> FuncOf(mine(w))],
                            V_tot |-> [w \in Workers |-> NoFunc],
                            collectives |-> 0 ]
    /\ UNCHANGED << solverVars, orb >>

(* NuclearPotential::allreducePotential, lines 308-337, called at line 286 *)
allreducePotential ==
    /\ nuc.status = "projected"
    /\ orb.status # "aborted"
    /\ LET reduced == ReducedPotential(nuc.V_loc)
           spread  == IF nuc.share
                      THEN SharedPath(reduced, nuc.V_tot, nuc.share_size)
                      ELSE DirectPath(reduced, nuc.V_tot)
       IN  nuc' = [nuc EXCEPT !.status = "built",
                              !.V_loc = spread.V_loc,
                              !.V_tot = spread.V_tot,
                              !.collectives = IF nuc.share THEN 3 ELSE 2]
    /\ UNCHANGED << solverVars, orb >>

NextObj ==
    \/ Orbital_default
    \/ Orbital_ctor
    \/ Orbital_copy
    \/ paramCopy
    \/ NuclearPotential
    \/ allreducePotential

InitObj ==
    /\ maxIter = 0
    /\ orbThrs = -10
    /\ propThrs = -10
    /\ startPrec = 30
    /\ floorPrec = 10
    /\ canonical = TRUE
    /\ orb_size \in { 1, MaxWorkers }
    /\ opVals = { ZeroOps }
    /\ normVals = NormVals
    /\ energyVals = EnergyVals
    /\ InitState(MId, ONE)

(* the constructors of the objects handed to the solver *)
SpecObj == InitObj /\ [][NextObj]_vars

NextNuc ==
    \/ NuclearPotential
    \/ allreducePotential

(* the construction of the nuclear potential alone *)
SpecNuc == InitObj /\ [][NextNuc]_vars

----------------------------------------------------------------------------
(* Vocabulary of the properties *)

(* optimize() has left its loop / has returned *)
AfterLoop == pc \in { "final", "return", "returned", "cleared" }
Returned == pc \in { "returned", "cleared" }

(* every orbital of the set has had its representation released *)
Released(Phi) == \A i \in DOMAIN Phi : Phi[i].form = "freed"

(* number of iterations whose convergence predicate has been evaluated *)
Evaluated == Len(convHist)

(* the predicate was true in some iteration; the first such iteration *)
SomeTrue == \E k \in 1..Evaluated : convHist[k]
FirstTrue == CHOOSE k \in 1..Evaluated :
                 convHist[k] /\ \A j \in 1..(k - 1) : ~convHist[j]

(* iterations whose Fock update, fock.clear and rotation are all done *)
CompletedCycles ==
    Cardinality({ i \in DOMAIN fockLog : fockLog[i].op = "clear" })
    - (IF pc = "rotate" THEN 1 ELSE 0)

(* largest norm among the orbital updates of the current iteration *)
MaxUpdateNorm ==
    CHOOSE m \in { dPhi_n[i].norm : i \in DOMAIN dPhi_n } :
        \A i \in DOMAIN dPhi_n : dPhi_n[i].norm <= m

----------------------------------------------------------------------------
(* C1: when the convergence predicate is true in iteration k the loop still
   performs that iteration's Fock update, fock.clear and rotation and then
   leaves without starting iteration k+1; when it is false and the cap is
   not reached iteration k+1 starts.  So the number of executed iterations
   is the index of the first iteration whose predicate is true and
   optimize() returns true. *)
C1_State ==
    /\ \A k \in 1..(Evaluated - 1) : ~convHist[k]
    /\ (AfterLoop /\ SomeTrue) =>
          /\ CompletedCycles = FirstTrue
          /\ Len(fockLog) = 2 * FirstTrue
          /\ fockLog[Len(fockLog)] = [op |-> "clear", prec |-> orb_prec,
                                      iter |-> FirstTrue]
          /\ \A i \in Idx : Phi_n[i].gen = FirstTrue
          /\ Len(property) = FirstTrue
    /\ (Returned /\ SomeTrue) => result = TRUE
    /\ (Returned /\ result = TRUE) => SomeTrue
C1_Step ==
    /\ (pc = "break" /\ converged[0]) => pc' = "final"
    /\ (pc = "break" /\ ~converged[0]) => pc' = "while"
    /\ (pc = "while" /\ maxIter >= 0 /\ nIter < maxIter) => pc' = "cycle"
    /\ (pc = "fockupdate") => pc' = "rotate"
    /\ (pc = "rotate") => pc' = "break"
(* C1, the formula: the state part holds in every state and every step of
   optimize() follows the control flow described above *)
C1_BreakAfterFullCycle == [](C1_State) /\ [][C1_Step]_vars
C1_Witness ==
    /\ pc = "returned"
    /\ result = TRUE
    /\ convHist = << FALSE, TRUE >>
    /\ orbThrs > 0
    /\ propThrs < 0

(* C2: when the cap is reached with the predicate false in every executed
   iteration, optimize() still performs the final canonicalization, returns
   false, and keeps the orbitals and Fock matrix of the last iteration and
   one history entry per executed iteration. *)
C2_CapReached == Returned /\ maxIter >= 0 /\ ~SomeTrue
C2_State ==
    C2_CapReached =>
        /\ result = FALSE
        /\ Evaluated = maxIter
        /\ Len(canonLog) = 2
        /\ canonLog[2].op = (IF canonical THEN "diagonalize" ELSE "localize")
        /\ Len(Phi_n) = NOrb
        /\ \A i \in Idx : Phi_n[i].gen = maxIter /\ Phi_n[i].form = "canonical"
        /\ Len(property) = maxIter
        /\ Len(orbError) = maxIter
C2_Step ==
    (pc \in { "return", "returned" }) => (F_n' = F_n /\ Phi_n' = Phi_n)
(* C2, the formula: on a cap exit the result, the history and the orbitals
   are as stated, and nothing touches F_n or Phi_n after the final
   canonicalization *)
C2_NonConvergenceCompletes == [](C2_State) /\ [][C2_Step]_vars
C2_Witness ==
    /\ pc = "returned"
    /\ maxIter = 2
    /\ convHist = << FALSE, FALSE >>
    /\ result = FALSE

(* C3: for maxIter >= 0 at most maxIter iterations are executed and the run
   terminates (maxIter = 0: no iteration, returns false); for maxIter < 0
   the loop ends exactly when the predicate becomes true; the loop is only
   left at an iteration boundary. *)
C3_IterationCap ==
    /\ maxIter >= 0 =>
          /\ Len(property) <= maxIter
          /\ Evaluated <= maxIter
          /\ Cardinality({ i \in DOMAIN fockLog : fockLog[i].op = "setup" }) <= maxIter
          /\ nIter <= maxIter + 1
          /\ pc = "cycle" => nIter <= maxIter
          /\ pc = "while" => ENABLED LoopTest
          /\ pc = "break" => ENABLED BreakTest
    /\ (maxIter = 0 /\ Returned) => (property = << >> /\ result = FALSE)
    /\ (maxIter < 0 /\ AfterLoop) => (Evaluated > 0 /\ convHist[Evaluated])
    /\ (maxIter < 0) => \A k \in 1..(Evaluated - 1) : ~convHist[k]
    /\ pc = "final" =>
          /\ ~fock.active
          /\ dPhi_n = << >>
          /\ Released(Phi_np1)
          /\ Len(Phi_n) = NOrb
          /\ Len(fockLog) = 2 * Evaluated
C3_Witness ==
    /\ pc = "returned"
    /\ maxIter = 1
    /\ Len(property) = 1
    /\ result = FALSE

(* C4: the predicate of an iteration is true exactly when (the orbital
   threshold is disabled or the largest orbital-update norm is below it) and
   (the property threshold is disabled or the property error is below it). *)
C4_ConvergencePredicate ==
    pc = "fockupdate" =>
        /\ convHist[Evaluated] = converged[0]
        /\ converged[0] <=>
              /\ (orbThrs < 0 \/ MaxUpdateNorm < orbThrs)
              /\ (propThrs < 0 \/ err_p < propThrs)
C4_Witness ==
    /\ pc = "fockupdate"
    /\ converged[0]
    /\ orbThrs > 0
    /\ propThrs < 0
    /\ MaxUpdateNorm < orbThrs
    /\ err_p > 0

(* positions of optimize() between fock.setup and fock.clear *)
FockInUse == pc \in { "helmholtz", "errors", "fockupdate" }

(* the precision H.setup received in iteration k *)
HelmholtzPrecs(k) ==
    { hLog[j].prec : j \in { x \in DOMAIN hLog :
                               hLog[x].op = "setup" /\ hLog[x].iter = k } }

(* C5: the lifecycle calls on the Fock operator alternate setup, clear,
   setup, clear, ...: one fock.setup at the working precision and one
   fock.clear per iteration, the operator is cleared whenever optimize()
   has returned, and neither canonicalization sets it up. *)
C5_FockLifecycle ==
    /\ \A i \in DOMAIN fockLog :
          /\ fockLog[i].op = (IF i % 2 = 1 THEN "setup" ELSE "clear")
          /\ fockLog[i].iter = (i + 1) \div 2
          /\ fockLog[i].op = "setup" =>
                \A q \in HelmholtzPrecs(fockLog[i].iter) : fockLog[i].prec = q
    /\ fock.active <=> (Len(fockLog) % 2 = 1)
    /\ fock.active <=> FockInUse
    /\ fock.active => fock.prec = orb_prec
    /\ FockInUse => Len(fockLog) = 2 * nIter - 1
    /\ pc \in { "rotate", "break" } => Len(fockLog) = 2 * nIter
    /\ (pc = "while" /\ nIter = 0) => fockLog = << >>
    /\ AfterLoop => (~fock.active /\ Len(fockLog) = 2 * Evaluated)
C5_Witness ==
    /\ pc = "returned"
    /\ Len(fockLog) = 4
    /\ fockLog[3].op = "setup"
    /\ ~fock.active

(* C6: the Helmholtz preconditioner is cleared after its use in every
   iteration, so H.setup never finds a previous setup still active and the
   preconditioner is cleared when optimize() returns, for one worker as
   well as for several. *)
C6_HelmholtzClearedEachIteration ==
    /\ \A i \in DOMAIN hLog : hLog[i].op = "setup" => ~hLog[i].wasActive
    /\ pc = "break" => ~H.active
    /\ Returned => ~H.active

(* C7: with a Hermitian Fock matrix at entry, the Fock matrix held after
   every iteration is Hermitian, for complex as well as real entries. *)
C7_FockStaysHermitian ==
    (pc = "break" /\ nIter >= 1) => IsHermitian(F_n)

(* orbital errors the schedule is evaluated on *)
ErrRange == { 5 * k : k \in 0..((startPrec + 10) \div 5) } \cup { ONE }

(* C8: the precision schedule is monotone in the orbital error and its
   result always lies between the configured floor and the configured
   starting precision; so does every precision handed to fock.setup. *)
C8_PrecisionSchedule ==
    /\ \A e1 \in ErrRange : \A e2 \in ErrRange :
          e1 < e2 => WorkingPrecision(e1) <= WorkingPrecision(e2)
    /\ \A e \in ErrRange :
          floorPrec <= WorkingPrecision(e) /\ WorkingPrecision(e) <= startPrec
    /\ \A i \in DOMAIN fockLog :
          fockLog[i].op = "setup" =>
              floorPrec <= fockLog[i].prec /\ fockLog[i].prec <= startPrec
    /\ pc = "energy" => orb_prec = WorkingPrecision(err_o[0])
C8_Witness ==
    /\ pc = "energy"
    /\ nIter = 2
    /\ floorPrec < orb_prec
    /\ orb_prec < startPrec
    /\ fockLog[1].prec = startPrec

(* C9: in the first iteration the working precision handed to fock.setup
   and H.setup is the configured starting precision, whatever errors the
   initial orbitals carry. *)
C9_FirstIterationStartPrec ==
    /\ \A i \in DOMAIN fockLog :
          (fockLog[i].op = "setup" /\ fockLog[i].iter = 1) =>
              fockLog[i].prec = startPrec
    /\ \A q \in HelmholtzPrecs(1) : q = startPrec

(* C10: after the reduction every worker holds the same error vector, the
   norms of all orbital updates in orbital order, each contributed once by
   its owner, whatever the number of workers; err_o, err_t and the
   convergence predicate agree on all workers. *)
C10_ReducedErrorsAgree ==
    /\ pc = "fockupdate" =>
          \A w \in Workers :
              /\ errors[w] = [i \in Idx |-> dPhi_n[i].norm]
              /\ err_o[w] = MaxUpdateNorm
              /\ converged[w] = convHist[Evaluated]
    /\ \A w \in Workers :
          /\ err_o[w] = err_o[0]
          /\ err_t[w] = err_t[0]
          /\ converged[w] = converged[0]
          /\ errors[w] = errors[0]
C10_Witness ==
    /\ pc = "fockupdate"
    /\ orb_size > 1
    /\ dPhi_n[1].norm # dPhi_n[2].norm
    /\ errors[1] = << dPhi_n[1].norm, dPhi_n[2].norm >>

(* C11: when calcFockMatrixUpdate is reached while the n+1 Fock operator
   reference is unset, the run stops with the fatal error before any overlap
   or operator matrix is evaluated: no update is produced and optimize()
   returns no convergence value; with the reference set the update is
   computed and there is no fatal stop. *)
C11_State ==
    /\ (pc \in { "constructed", "cleared", "fockupdate" } /\ ~refs.fOper_np1) =>
          ENABLED calcFockMatrixUpdateUnset
    /\ (pc = "fockupdate" /\ refs.fOper_np1) =>
          ~ENABLED calcFockMatrixUpdateUnset
    /\ pc = "fatal" => ~refs.fOper_np1
    /\ pc = "rotate" => refs.fOper_np1
C11_Step ==
    /\ pc # "fatal"
    /\ pc' = "fatal" =>
          /\ ~refs.fOper_np1
          /\ UNCHANGED << F_n, F_np1, Phi_np1, Phi_n, lambdaReads, result,
                          fock, fockLog, property, orbError, convHist >>
    /\ pc' = "rotate" => refs.fOper_np1
    /\ (pc = "cleared" /\ ~refs.fOper_np1) => pc' = "fatal"
(* C11, the formula: the state part holds in every state and the step into
   the fatal stop evaluates and returns nothing *)
C11_FatalOnUnsetOperator == [](C11_State) /\ [][C11_Step]_vars
C11_Witness ==
    /\ pc = "fatal"
    /\ ~refs.fOper_np1
    /\ Len(convHist) > 0
    /\ F_np1 = MZero

(* C12: constructing the nuclear potential with a negative projection or
   smoothing precision aborts before any nucleus is registered and before
   any projection, reduction or broadcast; a non-negative precision input
   never aborts. *)
C12_NegativePrecisionAborts ==
    nuc.status # "none" =>
        /\ (nuc.status = "aborted") <=> (nuc.proj_prec < 0 \/ nuc.smooth_arg < 0)
        /\ nuc.status = "aborted" =>
              /\ \A w \in Workers :
                    /\ nuc.func[w] = NoFunc
                    /\ nuc.loc_func[w] = NoFunc
                    /\ nuc.V_loc[w] = NoFunc
                    /\ nuc.V_tot[w] = NoFunc
              /\ nuc.collectives = 0

(* C13: every Orbital that is successfully constructed has spin >= 0 and
   occupation >= 0: a negative spin aborts construction and a negative
   occupation is replaced by the spin default. *)
C13_OrbitalInvariant ==
    /\ orb.status = "ok" => (orb.spin >= 0 /\ orb.occ >= 0)
    /\ orb.status = "aborted" => orb.spin < 0

(* C14: the number of orbitals in the current orbital set is the same at
   entry to optimize(), after every step of every iteration (also between
   the release of the old orbitals and the rotation that installs the new
   ones) and at return, and it equals the dimension of the Fock matrix. *)
C14_OrbitalCountInvariant ==
    /\ Len(Phi_n) = NOrb
    /\ DOMAIN Phi_n = DOMAIN F_n
    /\ \A i \in DOMAIN F_n : DOMAIN F_n[i] = DOMAIN Phi_n
    /\ pc \in { "errors", "fockupdate", "rotate", "break" } => Len(Phi_np1) = Len(Phi_n)
    /\ pc \in { "fockupdate", "rotate", "break" } => Len(dPhi_n) = Len(Phi_n)
    /\ pc = "rotate" => Released(Phi_n)
    /\ pc \in { "break", "while", "final", "return", "returned" } => ~Released(Phi_n)
C14_Witness ==
    /\ pc = "rotate"
    /\ nIter = 2
    /\ Released(Phi_n)
    /\ Len(Phi_n) = NOrb

(* precision of the last fock.setup, the working precision of the last
   executed iteration *)
LastWorkingPrecision == fockLog[Len(fockLog) - 1].prec

(* C15: on both exits of the loop the final diagonalization/localization
   runs at exactly one tenth of the working precision of the last executed
   iteration, and at one tenth of the precision of the initial
   canonicalization when no iteration was executed. *)
C15_FinalPrecisionTenth ==
    Len(canonLog) = 2 =>
        /\ Evaluated > 0 => 10 * canonLog[2].prec = LastWorkingPrecision
        /\ Evaluated = 0 => 10 * canonLog[2].prec = canonLog[1].prec
        /\ canonLog[2].prec < canonLog[1].prec
C15_Witness ==
    /\ pc = "returned"
    /\ result = TRUE
    /\ Evaluated = 2
    /\ LastWorkingPrecision = 20
    /\ canonLog[1].prec = 30
    /\ canonLog[2].prec = 2

(* C16 as stated: canonicalization/localization in the mode of the run is
   performed exactly twice, before the first iteration at the configured
   starting precision and after the last iteration at the configured floor
   precision divided by 10, never inside the iteration body. *)
C16_TwiceStartAndFloor ==
    /\ Len(canonLog) <= 2
    /\ Len(canonLog) >= 1 => canonLog[1].prec = startPrec
    /\ Len(canonLog) = 2 => canonLog[2].prec = floorPrec \div 10
    /\ Returned => Len(canonLog) = 2

(* C16 amended: canonicalization/localization in the mode of the run is
   performed exactly twice, before the first iteration at the configured
   starting precision and after the last iteration at one tenth of the
   working precision last used, never inside the iteration body. *)
C16_TwiceStartAndLastTenth ==
    /\ Len(canonLog) <= 2
    /\ \A i \in DOMAIN canonLog :
          canonLog[i].op = (IF canonical THEN "diagonalize" ELSE "localize")
    /\ Len(canonLog) >= 1 => canonLog[1].prec = startPrec
    /\ Len(canonLog) = 2 => 10 * canonLog[2].prec = orb_prec
    /\ pc \in { "constructed", "ready", "canonicalize" } => canonLog = << >>
    /\ pc \in { "while", "cycle", "energy", "helmholtz", "errors", "fockupdate",
                 "rotate", "break", "final" } => Len(canonLog) = 1
    /\ Returned => Len(canonLog) = 2
C16_Witness ==
    /\ pc = "returned"
    /\ Evaluated = 2
    /\ ~canonical
    /\ canonLog[1] = [op |-> "localize", prec |-> startPrec]
    /\ canonLog[2] = [op |-> "localize", prec |-> 2]
    /\ floorPrec = 10

(* the entries of fockLog written by fock.setup in consecutive iterations *)
ConsecutiveSetups ==
    { p \in (DOMAIN fockLog) \X (DOMAIN fockLog) :
        /\ fockLog[p[1]].op = "setup"
        /\ fockLog[p[2]].op = "setup"
        /\ fockLog[p[2]].iter = fockLog[p[1]].iter + 1 }

(* C17 as stated: over any sequence of orbital errors, also one in which
   the error grows, the working precision of iteration k+1 is at most that of
   iteration k and never below the configured floor. *)
C17_PrecisionNeverLoosens ==
    /\ \A p \in ConsecutiveSetups : fockLog[p[2]].prec <= fockLog[p[1]].prec
    /\ \A i \in DOMAIN fockLog : fockLog[i].prec >= floorPrec

(* C17 amended: the working precision of iteration k+1 is at most that of
   iteration k whenever the orbital error it is derived from is at most the
   error iteration k was derived from, and it is never below the floor. *)
C17_PrecisionFollowsError ==
    /\ \A p \in ConsecutiveSetups :
          fockLog[p[2]].err <= fockLog[p[1]].err =>
              fockLog[p[2]].prec <= fockLog[p[1]].prec
    /\ \A i \in DOMAIN fockLog : fockLog[i].prec >= floorPrec
    /\ \A i \in DOMAIN fockLog :
          fockLog[i].op = "setup" => fockLog[i].prec = WorkingPrecision(fockLog[i].err)
C17_Witness ==
    /\ Len(fockLog) >= 3
    /\ fockLog[1].err = ONE
    /\ fockLog[3].err = 20
    /\ fockLog[1].prec = 30
    /\ fockLog[3].prec = 20
    /\ floorPrec = 10

(* C18: after iteration k the orbital-error history has grown by exactly one
   entry, the maximum of the reduced per-orbital residual norms of iteration
   k (the scalar passed to the convergence predicate), not their Euclidean
   norm. *)
C18_OrbErrorIsMax ==
    /\ Len(orbError) = Evaluated
    /\ pc = "fockupdate" =>
          /\ orbError[Len(orbError)] = MaxUpdateNorm
          /\ orbError[Len(orbError)] = err_o[0]

(* the energy history is a prefix of what it is after the step *)
IsPrefix(a, b) == Len(a) <= Len(b) /\ SubSeq(b, 1, Len(a)) = a

(* C19: the energy history is append-only and grows by exactly one entry per
   executed iteration; entry k is the energy evaluated after fock.setup of
   iteration k and before that iteration's orbital update. *)
C19_State ==
    /\ Len(property) = Cardinality({ i \in DOMAIN fockLog : fockLog[i].op = "setup" })
    /\ Len(property) = Len(hLog) - Cardinality({ i \in DOMAIN hLog : hLog[i].op = "clear" })
                       + (IF pc = "helmholtz" THEN 1 ELSE 0)
    /\ Len(property) = Evaluated + (IF pc \in { "helmholtz", "errors" } THEN 1 ELSE 0)
    /\ Returned => Len(property) = Evaluated
C19_Step ==
    /\ IsPrefix(property, property')
    /\ Len(property') <= Len(property) + 1
    /\ property' # property =>
          /\ pc = "energy"
          /\ pc' = "helmholtz"
          /\ fock'.active
          /\ Len(property') = nIter
          /\ Phi_np1' = Phi_np1
          /\ Phi_n' = Phi_n
    /\ (pc = "energy" /\ pc' = "helmholtz") => Len(property') = Len(property) + 1
(* C19, the formula: the counts hold in every state and every step leaves
   the recorded entries in place *)
C19_PropertyAppendOnly == [](C19_State) /\ [][C19_Step]_vars
C19_Witness ==
    /\ pc = "returned"
    /\ Len(property) = 2
    /\ property[1] # property[2]
    /\ Evaluated = 2

(* the matrix X of C20, entry by entry: V_nuc(new, delta) + dS1*F_old +
   dS2*Lambda + (F1 + F2 + F2^T) - <new|F_n excluding nuclear|old> *)
ClaimedX(o, Fold, lam) ==
    [i \in Idx |-> [j \in Idx |->
        CSub(CAdd(CAdd(CAdd(CAdd(CAdd(o.dV_n[i][j],
                                      CSum([k \in Idx |-> CMul(o.dS_1[i][k], Fold[k][j])], NOrb)),
                                 CMul(o.dS_2[i][j], << lam[j], 0 >>)),
                            o.F_1[i][j]),
                       o.F_2[i][j]),
                  o.F_2[j][i]),
             o.F_n[i][j])]]
ClaimedUpdate(o, Fold, lam) ==
    LET X == ClaimedX(o, Fold, lam)
    IN  [i \in Idx |-> [j \in Idx |-> CHalf(CAdd(X[i][j], X[j][i]))]]

(* C20: calcFockMatrixUpdate returns dF = (X + X^T)/2 with X = V_nuc(new,
   delta) + dS1*F_old + dS2*Lambda + (F1 + F2 + F2^T) - <new|F_n excluding
   nuclear|old>, F_old the Fock matrix at entry to the iteration and Lambda
   the diagonal matrix of the Helmholtz energy levels; optimize() then forms
   F_next = F_old + dF before the rotation. *)
C20_Step ==
    /\ (pc = "fockupdate" /\ pc' = "rotate") =>
          /\ \E o \in opVals :
                F_np1' = [i \in Idx |-> [j \in Idx |->
                             CAdd(F_n[i][j], ClaimedUpdate(o, F_n, H.lambda)[i][j])]]
          /\ IsSymmetric(MSub(F_np1', F_n))
          /\ F_n' = F_n
    /\ (pc = "rotate" /\ pc' = "break") =>
          \E U \in RotVals : F_n' = Rotated(U, F_np1)
    /\ pc \in { "cycle", "energy", "helmholtz", "errors" } => F_n' = F_n
(* C20, the formula: every Fock update step and the rotation after it
   produce the matrices stated above *)
C20_FockUpdateFormula == [][C20_Step]_vars
C20_Witness ==
    /\ pc = "rotate"
    /\ ~IsReal(F_np1)
    /\ F_np1 # F_n
    /\ H.lambda # [i \in Idx |-> 0]
    /\ nIter = 2

(* C21: every read of the energy levels of the Helmholtz preconditioner and
   every application of it happens after its setup and before its clear of
   the same iteration; in a run with more than one worker
   calcFockMatrixUpdate does not read the levels of a preconditioner that
   optimize() has already cleared. *)
C21_LambdaReadWhileSetUp ==
    /\ \A k \in 1..Len(lambdaReads) : lambdaReads[k].active
    /\ pc = "rotate" =>
          /\ lambdaReads[Len(lambdaReads)].at = "calcFockMatrixUpdate"
          /\ lambdaReads[Len(lambdaReads)].iter = nIter
          /\ hLog[Len(hLog)].op = "setup"
          /\ hLog[Len(hLog)].iter = nIter

(* the orthonormalized copy of the new orbitals made inside
   calcFockMatrixUpdate *)
Orthonormalized(Phi) == \E i \in DOMAIN Phi : Phi[i].form = "orthonormal"

(* the set is the plain sum of the old orbitals and the updates of
   iteration k *)
IsSum(Phi, k) ==
    /\ Len(Phi) = NOrb
    /\ \A i \in DOMAIN Phi : Phi[i].form = "sum" /\ Phi[i].gen = k

(* C22: calcFockMatrixUpdate leaves the previous Fock matrix, the old
   orbitals Phi_n and the updates dPhi_n unchanged, and on return Phi_np1 is
   again the non-orthonormalized sum Phi_n + dPhi_n: the orthonormalized copy
   made for the n+1 operator is released and never reaches the Loewdin
   rotation of optimize(). *)
C22_State ==
    /\ ~Orthonormalized(Phi_np1)
    /\ ~Orthonormalized(Phi_n)
    /\ pc = "rotate" => IsSum(Phi_np1, nIter)
C22_Step ==
    /\ (pc = "fockupdate" /\ pc' = "rotate") =>
          LET r == OrbitalsAfterUpdate(Phi_n, dPhi_n, Phi_np1)
          IN  /\ r.Phi_n = Phi_n
              /\ r.dPhi_n = dPhi_n
              /\ r.Phi_np1 = add(Phi_n, dPhi_n)
              /\ Phi_np1' = r.Phi_np1
              /\ \A i \in DOMAIN Phi_n :
                    /\ Phi_n'[i].gen = Phi_n[i].gen
                    /\ dPhi_n'[i].gen = dPhi_n[i].gen
                    /\ Phi_np1'[i].gen = dPhi_n[i].gen
              /\ F_n' = F_n
    /\ (pc = "rotate" /\ pc' = "break") =>
          /\ IsSum(Phi_np1, nIter)
          /\ Released(Phi_np1')
(* C22, the formula: no state holds the orthonormalized copy and the update
   step and the rotation step are as stated *)
C22_SumReachesRotation == [](C22_State) /\ [][C22_Step]_vars
C22_Witness ==
    /\ pc = "rotate"
    /\ nIter = 2
    /\ IsSum(Phi_np1, 2)
    /\ Released(Phi_n)
    /\ Released(dPhi_n)

(* number of workers whose local function contains nucleus k *)
LocalHolders(k) == { w \in Workers : nuc.loc_func[w][k] > 0 }

(* C23: for any number of nuclei and of workers the construction puts each
   nucleus into the local function of exactly one worker (worker 0 for all
   nuclei when numerically exact, otherwise worker k mod the number of
   workers for nucleus k) while every worker registers all nuclei in its
   total analytic function; after allreducePotential every worker, with and
   without shared memory, holds the same potential, the sum of the local
   contributions with every nucleus counted exactly once. *)
C23_EveryNucleusOnce ==
    /\ nuc.status \in { "projected", "built" } =>
          /\ \A k \in Nuclei(nuc.n) :
                /\ Cardinality(LocalHolders(k)) = 1
                /\ LocalHolders(k) = { IF nuc.exact THEN 0 ELSE k % orb_size }
                /\ \A w \in Workers : nuc.loc_func[w][k] <= 1
          /\ \A w \in Workers : \A k \in Nuclei(MaxNuc) :
                /\ nuc.func[w][k] = (IF k \in Nuclei(nuc.n) THEN 1 ELSE 0)
                /\ k \notin Nuclei(nuc.n) => nuc.loc_func[w][k] = 0
    /\ nuc.status = "projected" =>
          \A w \in Workers : nuc.V_loc[w] = nuc.loc_func[w]
    /\ nuc.status = "built" =>
          /\ \A w \in Workers : \A v \in Workers : nuc.V_tot[w] = nuc.V_tot[v]
          /\ \A w \in Workers : \A k \in Nuclei(MaxNuc) :
                /\ nuc.V_tot[w][k] = SumFuncs(nuc.loc_func, k, orb_size - 1)
                /\ nuc.V_tot[w][k] = nuc.func[w][k]
                /\ k \in Nuclei(nuc.n) => nuc.V_tot[w][k] = 1
C23_Witness ==
    /\ nuc.status = "built"
    /\ nuc.share
    /\ nuc.share_size > 1
    /\ ~nuc.exact
    /\ orb_size = MaxWorkers
    /\ nuc.n = MaxNuc
    /\ \E w \in Workers : nuc.V_loc[w] # nuc.V_tot[w]

(* the last lifecycle call made on the solver *)
LastCall == IF calls = << >> THEN "none" ELSE calls[Len(calls)]

(* the five references of the solver *)
AllSet(r) ==
    r.fMat_n /\ r.fOper_n /\ r.fOper_np1 /\ r.orbitals_n /\ r.orbitals_np1
AllUnset(r) ==
    ~r.fMat_n /\ ~r.fOper_n /\ ~r.fOper_np1 /\ ~r.orbitals_n /\ ~r.orbitals_np1

(* C24: for any sequence of setup() and clear() calls, after setup() all
   five references are set, after clear() all five are unset and the working
   precision is reset, and destroying the solver reports "Solver not properly
   cleared" exactly when the last lifecycle call before the destruction was
   setup() rather than clear(); a freshly constructed solver is destroyed
   without error. *)
C24_State ==
    /\ LastCall = "setup" => AllSet(refs)
    /\ LastCall = "clear" => AllUnset(refs)
    /\ LastCall = "none" => ~refs.fOper_np1
    /\ pc = "cleared" => orbPrec = startPrec /\ getOrbitalPrecision = startPrec
    /\ pc # "destroyed" => msgLog = << >>
    /\ pc = "destroyed" =>
          /\ LastCall = "setup" => msgLog = << "Solver not properly cleared" >>
          /\ LastCall # "setup" => msgLog = << >>
C24_Step ==
    /\ calls' # calls =>
          /\ Len(calls') = Len(calls) + 1
          /\ SubSeq(calls', 1, Len(calls)) = calls
          /\ pc \in Idle
          /\ calls'[Len(calls')] = "setup" => AllSet(refs') /\ orbPrec' = orbPrec
          /\ calls'[Len(calls')] = "clear" => AllUnset(refs') /\ orbPrec' = startPrec
    /\ refs' # refs => calls' # calls
    /\ pc' = "destroyed" => UNCHANGED << refs, orbPrec, calls >>
    /\ pc = "destroyed" => UNCHANGED vars
(* C24, the formula: the references follow the last call in every state,
   and every call and the destruction act as stated *)
C24_LifecycleAndDestructor == [](C24_State) /\ [][C24_Step]_vars
C24_Witness ==
    /\ pc = "destroyed"
    /\ calls = << "setup", "clear", "setup" >>
    /\ msgLog = << "Solver not properly cleared" >>
    /\ Len(fockLog) > 0
    /\ fockLog[1].prec < startPrec
    /\ orbPrec = startPrec

====
